---- MODULE Spec2Model ----
(***************************************************************************)
(* The stacked pie chart component: src/src/components/PieChart.vue (the   *)
(* base component) and its radial-gradient variant (src/unnamed/part_000). *)
(*                                                                         *)
(* JavaScript numbers are IEEE-754 binary64 values.  They are modelled     *)
(* bit-exactly: a finite number is sign * m * 2^e with m a 53-bit          *)
(* significand held as a little-endian sequence of base-2^15 limbs, and    *)
(* every arithmetic operation rounds to nearest, ties to even.  The        *)
(* magnitudes that occur stay far inside the exponent range, so overflow   *)
(* to Infinity and subnormal results do not arise from rounding.           *)
(***************************************************************************)
EXTENDS Integers, Sequences, FiniteSets, TLC

(***************************************************************************)
(* Natural numbers of arbitrary size: little-endian limbs, no leading zero *)
(* limb, zero is << >>.                                                    *)
(***************************************************************************)
Base == 32768
LimbBits == 15
Precision == 53

RECURSIVE Pow2(_)
Pow2(n) == IF n = 0 THEN 1 ELSE 2 * Pow2(n - 1)

RECURSIVE BTrim(_)
BTrim(a) ==
  IF a = << >> THEN a
  ELSE IF a[Len(a)] = 0 THEN BTrim(SubSeq(a, 1, Len(a) - 1)) ELSE a

RECURSIVE BAddC(_, _, _)
BAddC(a, b, c) ==
  IF a = << >> /\ b = << >> THEN (IF c = 0 THEN << >> ELSE <<c>>)
  ELSE LET x == IF a = << >> THEN 0 ELSE Head(a)
           y == IF b = << >> THEN 0 ELSE Head(b)
           s == x + y + c
       IN  <<s % Base>> \o BAddC(IF a = << >> THEN a ELSE Tail(a),
                                 IF b = << >> THEN b ELSE Tail(b),
                                 s \div Base)

BAdd(a, b) == BAddC(a, b, 0)

\* a - b for a >= b, before trimming
RECURSIVE BSubC(_, _, _)
BSubC(a, b, c) ==
  IF a = << >> THEN << >>
  ELSE LET y == IF b = << >> THEN 0 ELSE Head(b)
           s == Head(a) - y - c
       IN  <<(s + Base) % Base>> \o BSubC(Tail(a),
                                          IF b = << >> THEN b ELSE Tail(b),
                                          IF s < 0 THEN 1 ELSE 0)

BSub(a, b) == BTrim(BSubC(a, b, 0))

\* -1, 0, 1 as a < b, a = b, a > b
RECURSIVE BCmpAt(_, _, _)
BCmpAt(a, b, i) ==
  IF i = 0 THEN 0
  ELSE IF a[i] < b[i] THEN -1
  ELSE IF a[i] > b[i] THEN 1
  ELSE BCmpAt(a, b, i - 1)

BCmp(a, b) ==
  IF Len(a) < Len(b) THEN -1
  ELSE IF Len(a) > Len(b) THEN 1
  ELSE BCmpAt(a, b, Len(a))

\* a * k + c for a limb-sized k
RECURSIVE BMulSmall(_, _, _)
BMulSmall(a, k, c) ==
  IF a = << >> THEN (IF c = 0 THEN << >> ELSE <<c>>)
  ELSE LET s == Head(a) * k + c
       IN  <<s % Base>> \o BMulSmall(Tail(a), k, s \div Base)

RECURSIVE BMul(_, _)
BMul(a, b) ==
  IF a = << >> \/ b = << >> THEN << >>
  ELSE BAdd(BMulSmall(a, Head(b), 0), <<0>> \o BMul(a, Tail(b)))

\* quotient (untrimmed) and remainder of a by a limb-sized d
RECURSIVE BDivRem(_, _)
BDivRem(a, d) ==
  IF a = << >> THEN [q |-> << >>, r |-> 0]
  ELSE LET hi  == BDivRem(Tail(a), d)
           cur == hi.r * Base + Head(a)
       IN  [q |-> <<cur \div d>> \o hi.q, r |-> cur % d]

RECURSIVE BitLenSmall(_)
BitLenSmall(x) == IF x = 0 THEN 0 ELSE 1 + BitLenSmall(x \div 2)

BitLen(a) ==
  IF a = << >> THEN 0 ELSE LimbBits * (Len(a) - 1) + BitLenSmall(a[Len(a)])

BShl(a, n) ==
  IF a = << >> THEN a
  ELSE [i \in 1..(n \div LimbBits) |-> 0] \o BMulSmall(a, Pow2(n % LimbBits), 0)

BShr(a, n) ==
  IF n \div LimbBits >= Len(a) THEN << >>
  ELSE BTrim(BDivRem(SubSeq(a, (n \div LimbBits) + 1, Len(a)),
                     Pow2(n % LimbBits)).q)

BFromNat(n) == IF n = 0 THEN << >> ELSE BTrim(<<n % Base, (n \div Base) % Base, n \div (Base * Base)>>)

RECURSIVE BToNat(_)
BToNat(a) == IF a = << >> THEN 0 ELSE Head(a) + Base * BToNat(Tail(a))

\* number of trailing zero bits of a non-zero a
RECURSIVE TrailingZerosSmall(_)
TrailingZerosSmall(x) == IF x % 2 = 1 THEN 0 ELSE 1 + TrailingZerosSmall(x \div 2)

RECURSIVE TrailingZeros(_)
TrailingZeros(a) ==
  IF Head(a) = 0 THEN LimbBits + TrailingZeros(Tail(a))
  ELSE TrailingZerosSmall(Head(a))

(***************************************************************************)
(* binary64 numbers.                                                       *)
(***************************************************************************)
NaN == [c |-> "nan", s |-> 0, m |-> << >>, e |-> 0]
Inf(s) == [c |-> "inf", s |-> s, m |-> << >>, e |-> 0]
Zero(s) == [c |-> "fin", s |-> s, m |-> << >>, e |-> 0]

IsNaN(x) == x.c = "nan"
IsInf(x) == x.c = "inf"
IsZero(x) == x.c = "fin" /\ x.m = << >>
IsFinite(x) == x.c = "fin"

Fin(s, m, e) == [c |-> "fin", s |-> s, m |-> m, e |-> e]

\* Q (53 bits) with the rounding carry, if any, absorbed
Carried(s, Q1, e) ==
  IF BitLen(Q1) > Precision THEN Fin(s, BShr(Q1, 1), e + 1) ELSE Fin(s, Q1, e)

\* ties to even: cmp compares the discarded part with half a unit of Q
RoundedUp(s, Q, e, cmp, sticky) ==
  IF cmp > 0 \/ (cmp = 0 /\ (sticky \/ Q[1] % 2 = 1))
  THEN Carried(s, BAdd(Q, <<1>>), e)
  ELSE Fin(s, Q, e)

\* M cut to Q, its leading 53 bits, k bits being discarded
RoundedCut(s, M, e, sticky, k, Q) ==
  RoundedUp(s, Q, e + k, BCmp(BSub(M, BShl(Q, k)), BShl(<<1>>, k - 1)), sticky)

RoundedAt(s, M, e, sticky, L) ==
  IF L <= Precision
  THEN Fin(s, BShl(M, Precision - L), e - (Precision - L))
  ELSE RoundedCut(s, M, e, sticky, L - Precision, BShr(M, L - Precision))

\* the binary64 nearest to (-1)^s * M * 2^e (M > 0), ties to even; sticky
\* says that the exact value lies strictly above M * 2^e, by less than 2^e
RoundNE(s, M, e, sticky) == RoundedAt(s, M, e, sticky, BitLen(M))

\* an integer below 2^31 in magnitude is a binary64 exactly
FromNat(s, n) ==
  Fin(s, BShl(BFromNat(n), Precision - BitLen(BFromNat(n))),
      BitLen(BFromNat(n)) - Precision)

FromInt(n) ==
  IF n = 0 THEN Zero(0) ELSE IF n < 0 THEN FromNat(1, -n) ELSE FromNat(0, n)

FNeg(x) == [x EXCEPT !.s = 1 - x.s]

FMul(x, y) ==
  IF IsNaN(x) \/ IsNaN(y) THEN NaN
  ELSE IF IsInf(x) \/ IsInf(y)
  THEN (IF IsZero(x) \/ IsZero(y) THEN NaN ELSE Inf((x.s + y.s) % 2))
  ELSE IF IsZero(x) \/ IsZero(y) THEN Zero((x.s + y.s) % 2)
  ELSE RoundNE((x.s + y.s) % 2, BMul(x.m, y.m), x.e + y.e, FALSE)

\* x / (d * 2^k) for finite non-zero x and odd d below 2^15
DividedBy(s, x, k, res) ==
  RoundNE(s, BTrim(res.q), x.e - (LimbBits + 2) - k, res.r # 0)

\* x / y; a finite non-zero divisor is d * 2^k with d odd and below 2^15
\* (every divisor of the program is a sum of small integers, 100 or 3)
FDiv(x, y) ==
  IF IsNaN(x) \/ IsNaN(y) THEN NaN
  ELSE IF IsInf(x) THEN (IF IsInf(y) THEN NaN ELSE Inf((x.s + y.s) % 2))
  ELSE IF IsInf(y) THEN Zero((x.s + y.s) % 2)
  ELSE IF IsZero(y) THEN (IF IsZero(x) THEN NaN ELSE Inf((x.s + y.s) % 2))
  ELSE IF IsZero(x) THEN Zero((x.s + y.s) % 2)
  ELSE DividedBy((x.s + y.s) % 2, x, y.e + TrailingZeros(y.m),
                 BDivRem(BShl(x.m, LimbBits + 2),
                         BToNat(BShr(y.m, TrailingZeros(y.m)))))

\* X * 2^e of sign sx plus Y * 2^e of sign sy, for X, Y > 0
Difference(sx, sy, X, Y, e, cmp) ==
  IF cmp = 0 THEN Zero(0)
  ELSE RoundNE(IF cmp > 0 THEN sx ELSE sy,
               IF cmp > 0 THEN BSub(X, Y) ELSE BSub(Y, X), e, FALSE)

Aligned(sx, sy, X, Y, e) ==
  IF sx = sy THEN RoundNE(sx, BAdd(X, Y), e, FALSE)
  ELSE Difference(sx, sy, X, Y, e, BCmp(X, Y))

AddedAt(x, y, e) ==
  Aligned(x.s, y.s, BShl(x.m, x.e - e), BShl(y.m, y.e - e), e)

FAdd(x, y) ==
  IF IsNaN(x) \/ IsNaN(y) THEN NaN
  ELSE IF IsInf(x) THEN (IF IsInf(y) /\ x.s # y.s THEN NaN ELSE x)
  ELSE IF IsInf(y) THEN y
  ELSE IF IsZero(x) THEN (IF IsZero(y) THEN Zero(IF x.s = 1 /\ y.s = 1 THEN 1 ELSE 0) ELSE y)
  ELSE IF IsZero(y) THEN x
  ELSE AddedAt(x, y, IF x.e < y.e THEN x.e ELSE y.e)

FSub(x, y) == FAdd(x, FNeg(y))

\* x < y for finite non-zero x, y of one sign: both significands have 53 bits
MagnitudeLess(x, y) ==
  x.e < y.e \/ (x.e = y.e /\ BCmp(x.m, y.m) < 0)

\* x < y (false when either is NaN)
FLt(x, y) ==
  IF IsNaN(x) \/ IsNaN(y) THEN FALSE
  ELSE IF IsInf(x) THEN x.s = 1 /\ ~(IsInf(y) /\ y.s = 1)
  ELSE IF IsInf(y) THEN y.s = 0
  ELSE IF IsZero(x) THEN ~IsZero(y) /\ y.s = 0
  ELSE IF IsZero(y) THEN x.s = 1
  ELSE IF x.s # y.s THEN x.s = 1
  ELSE IF x.s = 0 THEN MagnitudeLess(x, y)
  ELSE MagnitudeLess(y, x)

FLe(x, y) == ~IsNaN(x) /\ ~IsNaN(y) /\ ~FLt(y, x)

(***************************************************************************)
(* Strings are sequences of one-character strings.                         *)
(***************************************************************************)
DigitChars == <<"0", "1", "2", "3", "4", "5", "6", "7", "8", "9">>
IsDigit(ch) == \E d \in 1..10 : DigitChars[d] = ch
DigitVal(ch) == (CHOOSE d \in 1..10 : DigitChars[d] = ch) - 1
IsWhiteSpace(ch) == ch \in {" ", "\t", "\n"}

RECURSIVE NatToString(_)
NatToString(n) ==
  IF n < 10 THEN <<DigitChars[n + 1]>>
  ELSE NatToString(n \div 10) \o <<DigitChars[(n % 10) + 1]>>

\* String(x) of a number holding an integer, NaN or an infinity
NumberToString(x) ==
  IF IsNaN(x) THEN <<"N", "a", "N">>
  ELSE IF IsInf(x)
  THEN (IF x.s = 1 THEN <<"-">> ELSE << >>) \o <<"I", "n", "f", "i", "n", "i", "t", "y">>
  ELSE IF IsZero(x) THEN <<"0">>
  ELSE (IF x.s = 1 THEN <<"-">> ELSE << >>) \o NatToString(BToNat(BShr(x.m, -x.e)))

\* String.prototype.split with a one-character separator
RECURSIVE split(_, _)
split(str, sep) ==
  IF \A i \in 1..Len(str) : str[i] # sep THEN <<str>>
  ELSE LET i == CHOOSE j \in 1..Len(str) :
                  str[j] = sep /\ \A k \in 1..(j - 1) : str[k] # sep
       IN  <<SubSeq(str, 1, i - 1)>> \o split(SubSeq(str, i + 1, Len(str)), sep)

\* unlike replace below: every occurrence is replaced
replaceEvery(str, pattern, replacement) ==
  [i \in 1..Len(str) |-> IF str[i] = pattern THEN replacement ELSE str[i]]

\* String.prototype.replace with one-character strings: the first occurrence
replace(str, pattern, replacement) ==
  IF \A i \in 1..Len(str) : str[i] # pattern THEN str
  ELSE LET i == CHOOSE j \in 1..Len(str) :
                  str[j] = pattern /\ \A k \in 1..(j - 1) : str[k] # pattern
       IN  [str EXCEPT ![i] = replacement]

\* an array element converted to a string, as parseInt and a template
\* literal convert it: a missing element is undefined, "undefined"
ElementString(arr, index) ==
  IF index + 1 \in DOMAIN arr THEN arr[index + 1]
  ELSE <<"u", "n", "d", "e", "f", "i", "n", "e", "d">>

RECURSIVE SkipWhiteSpace(_)
SkipWhiteSpace(str) ==
  IF str # << >> /\ IsWhiteSpace(Head(str)) THEN SkipWhiteSpace(Tail(str)) ELSE str

RECURSIVE LeadingDigits(_, _)
LeadingDigits(str, acc) ==
  IF str # << >> /\ IsDigit(Head(str))
  THEN LeadingDigits(Tail(str), acc * 10 + DigitVal(Head(str)))
  ELSE acc

\* parseInt(str), radix 10: leading white space, a sign, then the digits up
\* to the first other character; NaN when there is no digit
parseInt(str) ==
  LET t    == SkipWhiteSpace(str)
      neg  == t # << >> /\ Head(t) = "-"
      u    == IF t # << >> /\ Head(t) \in {"-", "+"} THEN Tail(t) ELSE t
  IN  IF u = << >> \/ ~IsDigit(Head(u)) THEN NaN
      ELSE IF neg THEN FNeg(FromInt(LeadingDigits(u, 0)))
      ELSE FromInt(LeadingDigits(u, 0))

(***************************************************************************)
(* The component's script.  props is [data |-> the list of PieData].       *)
(***************************************************************************)
radius == 16
viewbox == radius * 2
MathPI == [c |-> "fin", s |-> 0, m |-> <<11544, 10376, 2029, 201>>, e |-> -51]
circumference == FMul(FMul(FromInt(2), MathPI), FromInt(radius))
strokeWidth == 23

\* const minRadiusMask = radius - props.data.length, evaluated by setup
SetupMinRadiusMask(props) == radius - Len(props.data)

RECURSIVE reduceQuantity(_, _, _)
reduceQuantity(arr, counter, accumulator) ==
  IF counter > Len(arr) THEN accumulator
  ELSE reduceQuantity(arr, counter + 1,
                      FAdd(accumulator, FromInt(arr[counter].quantity)))

totalPercentage(props) == reduceQuantity(props.data, 1, FromInt(0))

\* unlike getSinglePercentage below: the share of 100, not of the total
getSinglePercentageOfHundred(props, quantity) ==
  FDiv(FMul(FromInt(quantity), FromInt(100)), FromInt(100))

getSinglePercentage(props, quantity) ==
  FDiv(FMul(FromInt(quantity), FromInt(100)), totalPercentage(props))

getSlice(props, quantity) ==
  FDiv(FMul(circumference, getSinglePercentage(props, quantity)), FromInt(100))

\* unlike getRotateLoop below: the percentages are added up as they are,
\* not turned into degrees
RECURSIVE getRotateLoopPercent(_, _, _, _)
getRotateLoopPercent(props, index, angle, counter) ==
  IF counter < index
  THEN getRotateLoopPercent(props, index,
         FAdd(angle, getSinglePercentage(props, props.data[counter + 1].quantity)),
         counter + 1)
  ELSE angle

RECURSIVE getRotateLoop(_, _, _, _)
getRotateLoop(props, index, angle, counter) ==
  IF counter < index
  THEN getRotateLoop(props, index,
         FAdd(angle,
              FMul(FDiv(getSinglePercentage(props, props.data[counter + 1].quantity),
                        FromInt(100)),
                   FromInt(360))),
         counter + 1)
  ELSE angle

\* unlike getRotate below: the first slice is left out of the sum
getRotateFromSecond(props, index) ==
  getRotateLoop(props, index, FromInt(0), IF index > 0 THEN 1 ELSE 0)

getRotate(props, index) == getRotateLoop(props, index, FromInt(0), 0)

\* the number in `${0.5 + index / 3}s`
getDelay(index) == FAdd(FDiv(FromInt(1), FromInt(2)), FDiv(FromInt(index), FromInt(3)))

\* PieChart.vue
getIdBase(label) == replace(label, " ", "-")

\* the gradient variant
getId(label, index) == replace(label, " ", "-") \o <<"-">> \o NatToString(index)

\* unlike colorBrightness below: every lightness is raised by 20
colorBrightnessRaised(color) ==
  LET colorSplit == split(color, "%")
      parsed     == parseInt(ElementString(colorSplit, 1))
      lightness  == FAdd(parsed, FromInt(20))
  IN  ElementString(colorSplit, 0) \o <<"%", " ">> \o NumberToString(lightness)
        \o <<"%", " ">> \o ElementString(colorSplit, 2)

\* unlike colorBrightness below: a lightness of 30 is darkened too
colorBrightnessFromThirty(color) ==
  LET colorSplit == split(color, "%")
      parsed     == parseInt(ElementString(colorSplit, 1))
      lightness  == IF FLe(FromInt(30), parsed)
                    THEN FSub(parsed, FromInt(30))
                    ELSE FAdd(parsed, FromInt(20))
  IN  ElementString(colorSplit, 0) \o <<"%", " ">> \o NumberToString(lightness)
        \o <<"%", " ">> \o ElementString(colorSplit, 2)

colorBrightness(color) ==
  LET colorSplit == split(color, "%")
      parsed     == parseInt(ElementString(colorSplit, 1))
      lightness  == IF FLt(FromInt(30), parsed)
                    THEN FSub(parsed, FromInt(30))
                    ELSE FAdd(parsed, FromInt(20))
  IN  ElementString(colorSplit, 0) \o <<"%", " ">> \o NumberToString(lightness)
        \o <<"%", " ">> \o ElementString(colorSplit, 2)

(***************************************************************************)
(* Inputs.                                                                 *)
(***************************************************************************)
MaxLen == 3
Variants == {"base", "gradient"}
Quantities == {-1, 0, 1, 2}
HslColor(h, s, l) ==
  <<"h", "s", "l", "(">> \o NatToString(h) \o <<" ">> \o NatToString(s)
    \o <<"%", " ">> \o NatToString(l) \o <<"%", ")">>
Styles ==
  { [label |-> <<"I", "p", "s", "u", "m", " ", "D", "o", "l", "o", "r">>,
     color |-> HslColor(180, 60, 50)],
    [label |-> <<"I", "p", "s", "u", "m", "-", "D", "o", "l", "o", "r">>,
     color |-> HslColor(20, 60, 30)] }
Entries ==
  { [label |-> st.label, quantity |-> q, color |-> st.color] :
      st \in Styles, q \in Quantities }
\* the lists over S of at most n elements
RECURSIVE ListsUpTo(_, _)
ListsUpTo(S, n) ==
  IF n = 0 THEN {<< >>}
  ELSE {<< >>} \cup {<<x>> \o l : x \in S, l \in ListsUpTo(S, n - 1)}
DataLists == ListsUpTo(Entries, MaxLen)
QuantityLists == ListsUpTo(Quantities, MaxLen) \ {<< >>}
QuantitiesOf(d) == [i \in 1..Len(d) |-> d[i].quantity]

(***************************************************************************)
(* The script's numeric functions read nothing of props.data but the       *)
(* quantities.  Their values are tabulated once for every list of          *)
(* quantities (a constant is evaluated once); a render reads the table.    *)
(***************************************************************************)
Evaluated ==
  [qs \in QuantityLists |->
     LET props == [data |-> [i \in 1..Len(qs) |-> [quantity |-> qs[i]]]]
     IN  [totalPercentage |-> totalPercentage(props),
          getSlice  |-> [i \in 1..Len(qs) |-> getSlice(props, qs[i])],
          getRotate |-> [i \in 1..(Len(qs) + 1) |-> getRotate(props, i - 1)]]]

EvaluatedDelay == [i \in 1..(MaxLen + 1) |-> getDelay(i - 1)]

\* likewise colorBrightness, for the colors of the data
EvaluatedBrightness == [c \in {st.color : st \in Styles} |-> colorBrightness(c)]

(***************************************************************************)
(* The template: what one render puts in the document for each datum.      *)
(***************************************************************************)
Url(id) == <<"u", "r", "l", "(", "#">> \o id \o <<")">>
UrlTarget(ref) == SubSeq(ref, 6, Len(ref) - 1)
GradientPrefix == <<"g", "r", "a", "d", "i", "e", "n", "t", "-">>

SliceId(variant, label, index) ==
  IF variant = "base" THEN getIdBase(label) ELSE getId(label, index)

\* evaluated is the table's row for the quantities of props.data
RenderSlice(variant, props, mask, index, evaluated) ==
  LET datum == props.data[index + 1]
      id    == SliceId(variant, datum.label, index)
  IN  [gradient |-> IF variant = "base" THEN << >>
                    ELSE <<[id      |-> GradientPrefix \o id,
                            stop0   |-> EvaluatedBrightness[datum.color],
                            stop100 |-> datum.color]>>,
       maskId   |-> id,
       maskR    |-> mask + index,
       maskRef  |-> Url(id),
       rotate   |-> evaluated.getRotate[index + 1],
       color    |-> IF variant = "base" THEN datum.color
                    ELSE Url(GradientPrefix \o id),
       delay    |-> EvaluatedDelay[index + 1],
       dash     |-> evaluated.getSlice[index + 1],
       gap      |-> circumference,
       width    |-> strokeWidth]

RenderEach(variant, props, mask, evaluated) ==
  [i \in 1..Len(props.data) |-> RenderSlice(variant, props, mask, i - 1, evaluated)]

Render(variant, props, mask) ==
  RenderEach(variant, props, mask, Evaluated[QuantitiesOf(props.data)])

(***************************************************************************)
(* The view (ChartView.vue) holds the data and shows the chart under       *)
(* v-if="data?.length".  The chart's setup runs when it is mounted; its    *)
(* template is rendered then and again whenever the data prop changes.     *)
(***************************************************************************)
VARIABLES variant, data, mounted, minRadiusMask, rendered, call

vars == <<variant, data, mounted, minRadiusMask, rendered, call>>

NoCall == [fn |-> "none"]

\* the mask constant of the chart showing d: setup's, when d mounts the chart
MaskFor(d, wasMounted, oldMask) ==
  IF Len(d) = 0 THEN 0
  ELSE IF wasMounted THEN oldMask
  ELSE SetupMinRadiusMask([data |-> d])

Rendering(v, d, mask) ==
  IF Len(d) = 0 THEN << >> ELSE Render(v, [data |-> d], mask)

Init ==
  /\ variant \in Variants
  /\ data \in DataLists
  /\ mounted = (Len(data) > 0)
  /\ minRadiusMask = MaskFor(data, FALSE, 0)
  /\ rendered = Rendering(variant, data, minRadiusMask)
  /\ call = NoCall

Update(d) ==
  /\ data' = d
  /\ mounted' = (Len(d) > 0)
  /\ minRadiusMask' = MaskFor(d, mounted, minRadiusMask)
  /\ rendered' = Rendering(variant, d, minRadiusMask')
  /\ UNCHANGED <<variant, call>>

AddEntry ==
  \E e \in Entries :
    /\ Len(data) < MaxLen
    /\ Update(Append(data, e))

RemoveEntry ==
  \E i \in 1..Len(data) :
    Update(SubSeq(data, 1, i - 1) \o SubSeq(data, i + 1, Len(data)))

ChangeQuantity ==
  \E i \in 1..Len(data), q \in Quantities :
    /\ q # data[i].quantity
    /\ Update([data EXCEPT ![i].quantity = q])

Next == AddEntry \/ RemoveEntry \/ ChangeQuantity

Spec == Init /\ [][Next]_vars

(***************************************************************************)
(* colorBrightness on its own: a call with a color drawn from Colors.      *)
(***************************************************************************)
MaxLightness == 100
WellFormedColors ==
  { HslColor(h, s, l) : h \in {20, 180}, s \in {60}, l \in 0..MaxLightness }
MalformedColors ==
  { <<"r", "e", "d">>,
    <<"#", "f", "0", "0">>,
    <<"h", "s", "l", "(", "2", "0", ",", " ", "6", "0", "%", ",", " ", "5", "0", "%", ")">>,
    <<"h", "s", "l", "(", "2", "0", " ", "6", "0", "%", ")">> }
Colors == WellFormedColors \cup MalformedColors

NoChart ==
  /\ variant = "gradient"
  /\ data = << >>
  /\ mounted = FALSE
  /\ minRadiusMask = 0
  /\ rendered = << >>

InitColor ==
  /\ NoChart
  /\ \E c \in Colors :
       call = [fn |-> "colorBrightness", color |-> c, returned |-> FALSE,
               result |-> << >>]

CallColorBrightness ==
  /\ call.fn = "colorBrightness"
  /\ ~call.returned
  /\ call' = [call EXCEPT !.returned = TRUE,
                          !.result = colorBrightness(call.color)]
  /\ UNCHANGED <<variant, data, mounted, minRadiusMask, rendered>>

NextColor == CallColorBrightness

SpecColor == InitColor /\ [][NextColor]_vars

(***************************************************************************)
(* getId on its own, in both components: a call for each of two labels at  *)
(* one index.                                                              *)
(***************************************************************************)
MaxLabel == 3
LabelChars == {"a", " ", "-"}
Labels ==
  (ListsUpTo(LabelChars, MaxLabel) \ {<< >>})
    \cup {st.label : st \in Styles}

InitId ==
  /\ NoChart
  /\ \E a \in Labels, b \in Labels, i \in 0..(MaxLen - 1) :
       call = [fn |-> "getId", labels |-> <<a, b>>, index |-> i,
               returned |-> FALSE, base |-> << >>, gradient |-> << >>]

CallGetId ==
  /\ call.fn = "getId"
  /\ ~call.returned
  /\ call' = [call EXCEPT
                !.returned = TRUE,
                !.base = <<getIdBase(call.labels[1]), getIdBase(call.labels[2])>>,
                !.gradient = <<getId(call.labels[1], call.index),
                               getId(call.labels[2], call.index)>>]
  /\ UNCHANGED <<variant, data, mounted, minRadiusMask, rendered>>

NextId == CallGetId

SpecId == InitId /\ [][NextId]_vars

(***************************************************************************)
(* Exact arithmetic for stating the properties: (-1)^s * m * 2^e with m a  *)
(* natural number of any size.  Every finite binary64 is such a value.     *)
(***************************************************************************)
XOf(x) == [s |-> x.s, m |-> x.m, e |-> x.e]
XInt(n) == [s |-> IF n < 0 THEN 1 ELSE 0, m |-> BFromNat(IF n < 0 THEN -n ELSE n), e |-> 0]
XScale(a, k) == [a EXCEPT !.e = a.e + k]
XNeg(a) == [a EXCEPT !.s = 1 - a.s]
XAbs(a) == [a EXCEPT !.s = 0]
XIsZero(a) == a.m = << >>
XAdd(a, b) ==
  LET e   == IF a.e < b.e THEN a.e ELSE b.e
      A   == BShl(a.m, a.e - e)
      B   == BShl(b.m, b.e - e)
      cmp == BCmp(A, B)
  IN  IF a.s = b.s THEN [s |-> a.s, m |-> BAdd(A, B), e |-> e]
      ELSE IF cmp = 0 THEN [s |-> 0, m |-> << >>, e |-> 0]
      ELSE IF cmp > 0 THEN [s |-> a.s, m |-> BSub(A, B), e |-> e]
      ELSE [s |-> b.s, m |-> BSub(B, A), e |-> e]
XSub(a, b) == XAdd(a, XNeg(b))
XMul(a, b) ==
  IF XIsZero(a) \/ XIsZero(b) THEN [s |-> 0, m |-> << >>, e |-> 0]
  ELSE [s |-> (a.s + b.s) % 2, m |-> BTrim(BMul(a.m, b.m)), e |-> a.e + b.e]
XLe(a, b) == XIsZero(XSub(b, a)) \/ XSub(b, a).s = 0
XEq(a, b) == XIsZero(XSub(a, b))

\* the quantities of d are all positive, and d is not empty
PositiveQuantities(d) == Len(d) > 0 /\ \A i \in 1..Len(d) : d[i].quantity > 0

RECURSIVE SumOfQuantities(_)
SumOfQuantities(d) ==
  IF d = << >> THEN 0 ELSE Head(d).quantity + SumOfQuantities(Tail(d))

RECURSIVE SumOfDashes(_)
SumOfDashes(doc) ==
  IF doc = << >> THEN XInt(0) ELSE XAdd(XOf(Head(doc).dash), SumOfDashes(Tail(doc)))

\* one unit in the last place of the circumference (2^-46)
UlpOfCircumference == XScale(XInt(1), circumference.e)

(***************************************************************************)
(* C1.  As claimed: for every non-empty data list with positive            *)
(* quantities the dash lengths of the rendered slices sum to the           *)
(* circumference, whatever the total of the quantities.                    *)
(***************************************************************************)
C1_SumIsCircumference ==
  (mounted /\ PositiveQuantities(data))
    => XEq(SumOfDashes(rendered), XOf(circumference))

(***************************************************************************)
(* C1, amended.  For every non-empty data list with positive quantities    *)
(* the dash lengths sum to the circumference up to the rounding of the     *)
(* three operations that compute each of them: for integer quantities the  *)
(* sum lies within three units in the last place of the circumference      *)
(* (3 * 2^-46), on either side of it.                                      *)
(***************************************************************************)
C1_SumNearCircumference ==
  (mounted /\ PositiveQuantities(data))
    => XLe(XAbs(XSub(SumOfDashes(rendered), XOf(circumference))),
           XMul(XInt(3), UlpOfCircumference))

\* quantities 1 and 2 (or other totals than 100): the sum exceeds the
\* circumference, within the tolerance
C1_Witness ==
  /\ mounted
  /\ PositiveQuantities(data)
  /\ Len(data) >= 2
  /\ SumOfQuantities(data) # 100
  /\ ~XLe(SumOfDashes(rendered), XOf(circumference))
  /\ XLe(XAbs(XSub(SumOfDashes(rendered), XOf(circumference))),
         XMul(XInt(3), UlpOfCircumference))

(***************************************************************************)
(* C2.  As claimed: for positive quantities the first slice is rotated by  *)
(* 0 and slice i by exactly the rotation of slice i-1 plus                 *)
(* 360 * quantity[i-1] / total, which is where the arc of slice i-1 (its   *)
(* dash length as a fraction of the circumference, times 360) ends.        *)
(***************************************************************************)
RotationStep(doc, i) == XSub(XOf(doc[i].rotate), XOf(doc[i - 1].rotate))

C2_ArcsMeetExactly ==
  (mounted /\ PositiveQuantities(data)) =>
    /\ IsZero(rendered[1].rotate)
    /\ \A i \in 2..Len(rendered) :
         /\ XEq(XMul(XInt(SumOfQuantities(data)), RotationStep(rendered, i)),
                XInt(360 * data[i - 1].quantity))
         /\ XEq(XMul(XOf(circumference), RotationStep(rendered, i)),
                XMul(XInt(360), XOf(rendered[i - 1].dash)))

(***************************************************************************)
(* C2, amended.  For positive quantities the first slice is rotated by 0   *)
(* and the rotation of slice i is that of slice i-1 plus                   *)
(* 360 * quantity[i-1] / total up to floating-point rounding: for integer  *)
(* quantities the two differ by at most 2^-42 degrees, and the start of    *)
(* slice i and the end of the arc of slice i-1 (360 * dash length /        *)
(* circumference after its start) by at most 2^-41 degrees.                *)
(***************************************************************************)
C2_ArcsMeetNearly ==
  (mounted /\ PositiveQuantities(data)) =>
    /\ IsZero(rendered[1].rotate)
    /\ \A i \in 2..Len(rendered) :
         /\ XLe(XAbs(XSub(XMul(XInt(SumOfQuantities(data)), RotationStep(rendered, i)),
                          XInt(360 * data[i - 1].quantity))),
                XScale(XInt(SumOfQuantities(data)), -42))
         /\ XLe(XAbs(XSub(XMul(XOf(circumference), RotationStep(rendered, i)),
                          XMul(XInt(360), XOf(rendered[i - 1].dash)))),
                XScale(XOf(circumference), -41))

\* three slices, the second of which starts off 360 * q / total exactly
C2_Witness ==
  /\ mounted
  /\ PositiveQuantities(data)
  /\ Len(data) >= 3
  /\ ~XEq(XMul(XInt(SumOfQuantities(data)), RotationStep(rendered, 2)),
          XInt(360 * data[1].quantity))
  /\ C2_ArcsMeetNearly

(***************************************************************************)
(* C3.  As claimed (for the positive quantities the data model expects):   *)
(* getRotate is non-decreasing over the indices 0..n and getRotate(n),     *)
(* the rotation at the number of slices, is 360.                           *)
(***************************************************************************)
RotationAt(d, index) == Evaluated[QuantitiesOf(d)].getRotate[index + 1]

NonDecreasingRotation(d) ==
  \A i \in 0..(Len(d) - 1) : FLe(RotationAt(d, i), RotationAt(d, i + 1))

C3_ClosesAt360 ==
  (mounted /\ PositiveQuantities(data)) =>
    /\ NonDecreasingRotation(data)
    /\ RotationAt(data, Len(data)) = FromInt(360)

(***************************************************************************)
(* C3, amended.  For every data list of n >= 1 slices with positive        *)
(* quantities getRotate is non-decreasing over 0..n, and getRotate(n) is   *)
(* 360 up to floating-point tolerance: for integer quantities within       *)
(* (n + 2) * 2^-44 degrees.                                                *)
(***************************************************************************)
C3_ClosesNear360 ==
  (mounted /\ PositiveQuantities(data)) =>
    /\ NonDecreasingRotation(data)
    /\ IsFinite(RotationAt(data, Len(data)))
    /\ XLe(XAbs(XSub(XOf(RotationAt(data, Len(data))), XInt(360))),
           XScale(XInt(Len(data) + 2), -44))

\* three slices whose rotations end beside 360, not on it
C3_Witness ==
  /\ mounted
  /\ PositiveQuantities(data)
  /\ Len(data) = 3
  /\ RotationAt(data, Len(data)) # FromInt(360)
  /\ FLt(RotationAt(data, 1), RotationAt(data, 2))
  /\ C3_ClosesNear360

(***************************************************************************)
(* C4.  After any sequence of changes to the data prop every rendered      *)
(* value (dash lengths, rotations, mask radii, ids) equals what a fresh    *)
(* computation over the current data list yields; in particular the mask   *)
(* radius of slice i is radius minus the current number of slices plus i.  *)
(***************************************************************************)
FreshRender(v, d) == Render(v, [data |-> d], SetupMinRadiusMask([data |-> d]))

C4_RenderedIsFresh ==
  mounted =>
    /\ rendered = FreshRender(variant, data)
    /\ \A i \in 1..Len(rendered) : rendered[i].maskR = radius - Len(data) + (i - 1)

\* a chart whose data changed in length while it was mounted
C4_Witness ==
  /\ mounted
  /\ minRadiusMask # SetupMinRadiusMask([data |-> data])
  /\ rendered # FreshRender(variant, data)

(***************************************************************************)
(* C5.  In every rendered chart, of the base component and of the gradient *)
(* variant, the element ids of slices i # j are distinct, also when their  *)
(* labels are equal, and the mask reference of each slice resolves to the  *)
(* mask of that slice.                                                     *)
(***************************************************************************)
\* the element url(#id) resolves to: the first one of the document with that id
Resolve(doc, ref) ==
  CHOOSE j \in 1..Len(doc) :
    /\ doc[j].maskId = UrlTarget(ref)
    /\ \A k \in 1..(j - 1) : doc[k].maskId # UrlTarget(ref)

C5_IdsDistinct ==
  mounted =>
    /\ \A i, j \in 1..Len(rendered) : i # j => rendered[i].maskId # rendered[j].maskId
    /\ \A i \in 1..Len(rendered) : Resolve(rendered, rendered[i].maskRef) = i

\* the base component with two slices of one label: the second slice is
\* masked by the mask of the first
C5_Witness ==
  /\ mounted
  /\ variant = "base"
  /\ Len(data) >= 2
  /\ data[1].label = data[2].label
  /\ rendered[1].maskId = rendered[2].maskId
  /\ Resolve(rendered, rendered[2].maskRef) = 1

(***************************************************************************)
(* C6.  For a list of n slices the mask radius of slice i is               *)
(* radius - n + i (13, 14, 15 for three slices), so each slice is revealed *)
(* through its own, slightly larger mask.                                  *)
(***************************************************************************)
C6_MaskRadius ==
  \A i \in 1..Len(rendered) : rendered[i].maskR = radius - Len(rendered) + (i - 1)

\* a chart mounted with one slice that now shows two
C6_Witness ==
  /\ mounted
  /\ Len(rendered) = 2
  /\ minRadiusMask = radius - 1
  /\ rendered[1].maskR = radius - 1

(***************************************************************************)
(* C7.  With an empty data list, or quantities whose total is zero or      *)
(* negative, the component renders nothing or shows an error: no rendered  *)
(* slice has a dash length or a rotation that is NaN, infinite or of the   *)
(* wrong sign.                                                             *)
(***************************************************************************)
Proper(x) == IsFinite(x) /\ (x.s = 0 \/ IsZero(x))

C7_NoDegenerateSlice ==
  (data = << >> \/ SumOfQuantities(data) <= 0) =>
    \A i \in 1..Len(rendered) : Proper(rendered[i].dash) /\ Proper(rendered[i].rotate)

\* a mounted chart of total zero with a NaN dash length
C7_Witness ==
  /\ mounted
  /\ SumOfQuantities(data) = 0
  /\ \E i \in 1..Len(rendered) : IsNaN(rendered[i].dash)

(***************************************************************************)
(* C8.  For a well-formed color 'hsl(H S% L%)' with integer L,             *)
(* colorBrightness returns the same hue and saturation with a lightness of *)
(* L - 30 when L > 30 and of L + 20 otherwise (30 gives 50, 31 gives 1).   *)
(***************************************************************************)
ShiftedLightness(l) == IF l > 30 THEN l - 30 ELSE l + 20

\* the returned string: H and S as given, the new lightness, and what
\* followed the second % sign
Shifted(h, s, l) ==
  <<"h", "s", "l", "(">> \o NatToString(h) \o <<" ">> \o NatToString(s) \o <<"%">>
    \o <<" ">> \o NatToString(ShiftedLightness(l)) \o <<"%">> \o <<" ", ")">>

C8_LightnessShift ==
  \A h \in {20, 180}, s \in {60}, l \in 0..MaxLightness :
    (call.fn = "colorBrightness" /\ call.returned /\ call.color = HslColor(h, s, l))
      => call.result = Shifted(h, s, l)

\* the call at the boundary: a lightness of 30 came back as 50
C8_Witness ==
  /\ call.fn = "colorBrightness"
  /\ call.returned
  /\ call.color = HslColor(20, 60, 30)
  /\ call.result = <<"h", "s", "l", "(", "2", "0", " ", "6", "0", "%", " ",
                     "5", "0", "%", " ", ")">>

(***************************************************************************)
(* C9.  A color string that does not split into exactly three '%' parts    *)
(* with a numeric lightness is rejected: colorBrightness never returns a   *)
(* string containing 'NaN%' or 'undefined'.                                *)
(***************************************************************************)
Contains(str, sub) ==
  \E i \in 1..(Len(str) - Len(sub) + 1) : SubSeq(str, i, i + Len(sub) - 1) = sub

C9_NoNaNColor ==
  (call.fn = "colorBrightness" /\ call.returned) =>
    /\ ~Contains(call.result, <<"N", "a", "N", "%">>)
    /\ ~Contains(call.result, <<"u", "n", "d", "e", "f", "i", "n", "e", "d">>)

\* 'red' came back as 'red% NaN% undefined'
C9_Witness ==
  /\ call.fn = "colorBrightness"
  /\ call.returned
  /\ call.color = <<"r", "e", "d">>
  /\ call.result = <<"r", "e", "d", "%", " ", "N", "a", "N", "%", " ",
                     "u", "n", "d", "e", "f", "i", "n", "e", "d">>

(***************************************************************************)
(* C10.  getId replaces exactly the first space of the label by '-': a     *)
(* label with two or more spaces keeps a space in its id, and two labels   *)
(* that differ only in that the one has '-' where the other has its first  *)
(* space ('Ipsum Dolor', 'Ipsum-Dolor') get the same id at the same index. *)
(***************************************************************************)
FirstSpaceDashed(label) ==
  [i \in 1..Len(label) |->
     IF label[i] = " " /\ \A k \in 1..(i - 1) : label[k] # " " THEN "-" ELSE label[i]]

Spaces(str) == Cardinality({i \in 1..Len(str) : str[i] = " "})

C10_FirstSpaceOnly ==
  (call.fn = "getId" /\ call.returned) =>
    /\ \A k \in 1..2 :
         /\ call.base[k] = FirstSpaceDashed(call.labels[k])
         /\ call.gradient[k] =
              FirstSpaceDashed(call.labels[k]) \o <<"-">> \o NatToString(call.index)
         /\ Spaces(call.labels[k]) >= 2 =>
              /\ Spaces(call.base[k]) = Spaces(call.labels[k]) - 1
              /\ Spaces(call.gradient[k]) = Spaces(call.labels[k]) - 1
    /\ (Spaces(call.labels[1]) = 1 /\ call.labels[2] = FirstSpaceDashed(call.labels[1])) =>
         /\ call.base[1] = call.base[2]
         /\ call.gradient[1] = call.gradient[2]

\* 'Ipsum Dolor' and 'Ipsum-Dolor' at index 1: one id for both
C10_Witness ==
  /\ call.fn = "getId"
  /\ call.returned
  /\ call.index = 1
  /\ call.labels = <<<<"I", "p", "s", "u", "m", " ", "D", "o", "l", "o", "r">>,
                     <<"I", "p", "s", "u", "m", "-", "D", "o", "l", "o", "r">>>>
  /\ call.base[1] = call.base[2]
  /\ call.gradient[1] = <<"I", "p", "s", "u", "m", "-", "D", "o", "l", "o", "r", "-", "1">>
  /\ call.gradient[2] = call.gradient[1]

(***************************************************************************)
(* C11.  As claimed: for every slice color with lightness L in 0..100 the  *)
(* center stop of the slice's radial gradient (offset 0%, the color        *)
(* colorBrightness returns) has a lightness strictly greater than the edge *)
(* stop (offset 100%, the color itself): bright center, base color edge.   *)
(***************************************************************************)
\* the lightness written in a color 'hsl(H S% L% ...': the digits that
\* follow the first % sign and the white space after it
StopLightness(stop) == LeadingDigits(SkipWhiteSpace(split(stop, "%")[2]), 0)

\* a call of colorBrightness, as the template makes it for the stop at
\* offset 0%, that has returned: call.color is the stop at offset 100%
GradientStops ==
  call.fn = "colorBrightness" /\ call.returned /\ call.color \in WellFormedColors

C11_CenterBrighter ==
  GradientStops => StopLightness(call.result) > StopLightness(call.color)

(***************************************************************************)
(* C11, amended.  For every slice color with lightness L in 0..100 the     *)
(* center stop has a lightness strictly greater than the edge stop         *)
(* (by 20) when L <= 30, and strictly smaller (by 30) when L > 30: the     *)
(* gradient is bright at the center only for colors of lightness at most   *)
(* 30 and dark at the center for all others; the two stops never have the  *)
(* same lightness.                                                         *)
(***************************************************************************)
C11_CenterBrighterOrDarker ==
  GradientStops =>
    /\ StopLightness(call.color) <= 30 =>
         StopLightness(call.result) = StopLightness(call.color) + 20
    /\ StopLightness(call.color) > 30 =>
         StopLightness(call.result) = StopLightness(call.color) - 30
    /\ StopLightness(call.result) # StopLightness(call.color)

\* the mock data's lightness of 50: the center stop has a lightness of 20
C11_Witness ==
  /\ GradientStops
  /\ StopLightness(call.color) = 50
  /\ StopLightness(call.result) = 20

(***************************************************************************)
(* The masks of charts of up to a few dozen slices.  Of the template only  *)
(* the mask elements are rendered here: their ids and radii read nothing   *)
(* but the labels, the indices and minRadiusMask.                          *)
(***************************************************************************)
MaxSlices == 24

\* an entry of the view's mock data
MockSlice ==
  [label |-> <<"I", "p", "s", "u", "m", " ", "D", "o", "l", "o", "r">>,
   quantity |-> 10,
   color |-> HslColor(180, 60, 50)]

RenderMask(v, props, mask, index) ==
  [maskId |-> SliceId(v, props.data[index + 1].label, index),
   maskR  |-> mask + index]

RenderMasks(v, props, mask) ==
  [i \in 1..Len(props.data) |-> RenderMask(v, props, mask, i - 1)]

RenderingMasks(v, d, mask) ==
  IF Len(d) = 0 THEN << >> ELSE RenderMasks(v, [data |-> d], mask)

InitMask ==
  /\ variant \in Variants
  /\ \E n \in 0..MaxSlices : data = [i \in 1..n |-> MockSlice]
  /\ mounted = (Len(data) > 0)
  /\ minRadiusMask = MaskFor(data, FALSE, 0)
  /\ rendered = RenderingMasks(variant, data, minRadiusMask)
  /\ call = NoCall

UpdateMasks(d) ==
  /\ data' = d
  /\ mounted' = (Len(d) > 0)
  /\ minRadiusMask' = MaskFor(d, mounted, minRadiusMask)
  /\ rendered' = RenderingMasks(variant, d, minRadiusMask')
  /\ UNCHANGED <<variant, call>>

AddSlice ==
  /\ Len(data) < MaxSlices
  /\ UpdateMasks(Append(data, MockSlice))

RemoveSlice ==
  /\ Len(data) > 0
  /\ UpdateMasks(SubSeq(data, 1, Len(data) - 1))

NextMask == AddSlice \/ RemoveSlice

SpecMask == InitMask /\ [][NextMask]_vars

(***************************************************************************)
(* C12.  For every data list of n >= 1 slices, lists of a few dozen slices *)
(* included, and every index i in 0..n-1, the mask radius radius - n + i   *)
(* is at least 1 and strictly less than the radius of the slice's circle   *)
(* (16): every slice has a valid, non-empty mask.  Stated of the charts    *)
(* whose minRadiusMask is that of their current list.                      *)
(***************************************************************************)
C12_MaskRadiusInRange ==
  (mounted /\ minRadiusMask = radius - Len(data)) =>
    \A i \in 1..Len(rendered) : rendered[i].maskR >= 1 /\ rendered[i].maskR < radius

\* a chart mounted with two dozen slices: the first mask has a radius of -8
C12_Witness ==
  /\ mounted
  /\ Len(data) = 24
  /\ minRadiusMask = radius - Len(data)
  /\ rendered[1].maskR = -8
====
